---- MODULE Spec2Model ----
(***************************************************************************)
(* Model of src/src/utils/openai-stream.ts: the text extractor             *)
(* (chunkToText / streamable), the function-call aggregator                *)
(* (createFunctionCallTransformer) and the pipeline OpenAIStream builds,   *)
(* including the continuation streams a handler may return.                *)
(*                                                                         *)
(* Text is a sequence of characters.  A character is a short string: "a"   *)
(* (a letter), "1" (a digit), "SP" (space), "BS" (backslash), "DQ"         *)
(* (double quote), "SL" (slash), "NL", "CR", "TAB", "FF", "BSP"            *)
(* (U+0008), and the letters "n" "r" "t" "f" "b" that follow a backslash   *)
(* in an escape.  Five fixed literals of the source are written as one     *)
(* element each:                                                           *)
(*   "OPEN"   {"function_call": {"name": "                                  *)
(*   "MID"    ", "arguments": "                                             *)
(*   "CLOSE"  "}}                                                           *)
(*   "IDS"     {"conversation_id":"<id>","parent_message_id":"<id>"}       *)
(*   "UNDEF"  undefined   (what a template literal prints for undefined)   *)
(* and "FC" is content text that itself spells {"function_call":           *)
(***************************************************************************)
EXTENDS Naturals, Sequences, FiniteSets, TLC

\* ------------------------------------------------------------------ bounds
\* chunks one upstream source delivers before it must end
MaxChunks == 4
\* chunks the upstream sources of one request deliver together
MaxTotal == 6
\* continuations the handler is willing to return for one request
MaxDepth == 2

\* ------------------------------------------------------------------ text
\* An absent (undefined) string field: a marker that is no text of characters
Undef == <<"undefined">>
\* An absent or null finish_reason
NoFinish == "null"

Whitespace == {"SP", "NL", "CR", "TAB", "FF"}

\* String.prototype.trimStart
RECURSIVE TrimStart(_)
TrimStart(s) ==
  IF s = <<>> THEN <<>>
  ELSE IF Head(s) \in Whitespace THEN TrimStart(Tail(s))
  ELSE s

\* The closure trimStartOfStreamHelper() returns: text is trimmed at its start
\* until the first text that is not empty after trimming.
\* Result: <<text, isStreamStart'>>
trimStartOfStream(isStreamStart, text) ==
  IF isStreamStart
  THEN LET t == TrimStart(text) IN <<t, t = <<>>>>
  ELSE <<text, FALSE>>

\* s.replace(/c/g, rep) for a one-character pattern c
RECURSIVE ReplaceAll(_, _, _)
ReplaceAll(s, c, rep) ==
  IF s = <<>> THEN <<>>
  ELSE (IF Head(s) = c THEN rep ELSE <<Head(s)>>) \o ReplaceAll(Tail(s), c, rep)

\* The chain of replace() calls on an argument fragment, in the source's order.
EscapeArguments(a) ==
  LET s1 == ReplaceAll(a, "BS", <<"BS", "BS">>)
      s2 == ReplaceAll(s1, "SL", <<"BS", "SL">>)
      s3 == ReplaceAll(s2, "DQ", <<"BS", "DQ">>)
      s4 == ReplaceAll(s3, "NL", <<"BS", "n">>)
      s5 == ReplaceAll(s4, "CR", <<"BS", "r">>)
      s6 == ReplaceAll(s5, "TAB", <<"BS", "t">>)
  IN ReplaceAll(s6, "FF", <<"BS", "f">>)

\* ------------------------------------------------------------------ JSON.parse
\* Characters that may not appear raw inside a JSON string literal, and the
\* literals of the source, none of which is a single character of a string body.
ControlChars == {"NL", "CR", "TAB", "FF", "BSP"}
Literals == {"OPEN", "MID", "CLOSE", "IDS", "UNDEF", "FC"}
JsonWhitespace == {"SP", "NL", "CR", "TAB"}

\* The character a backslash escape stands for, or "invalid".
Unescaped(c) ==
  CASE c = "DQ" -> "DQ"
    [] c = "BS" -> "BS"
    [] c = "SL" -> "SL"
    [] c = "n" -> "NL"
    [] c = "r" -> "CR"
    [] c = "t" -> "TAB"
    [] c = "f" -> "FF"
    [] c = "b" -> "BSP"
    [] OTHER -> "invalid"

\* Scans the body of a JSON string literal from the front of s up to the first
\* element of `stops`.  Result: [ok, value, rest], rest starting at the stop.
RECURSIVE ScanString(_, _, _)
ScanString(s, stops, acc) ==
  IF s = <<>> THEN [ok |-> FALSE, value |-> acc, rest |-> <<>>]
  ELSE IF Head(s) \in stops THEN [ok |-> TRUE, value |-> acc, rest |-> s]
  ELSE IF Head(s) \in ControlChars \cup Literals \cup {"DQ"}
    THEN [ok |-> FALSE, value |-> acc, rest |-> s]
  ELSE IF Head(s) = "BS"
    THEN IF Len(s) < 2 \/ Unescaped(s[2]) = "invalid"
         THEN [ok |-> FALSE, value |-> acc, rest |-> s]
         ELSE ScanString(Tail(Tail(s)), stops, Append(acc, Unescaped(s[2])))
  ELSE ScanString(Tail(s), stops, Append(acc, Head(s)))

AllIn(s, S) == \A i \in 1..Len(s) : s[i] \in S

\* JSON.parse(aggregatedResponse) followed by the reads of
\* payload.function_call.name and payload.function_call.arguments.
\* Result: [ok, name, arguments]; ok = FALSE stands for the SyntaxError (or the
\* TypeError of reading a field of a missing function_call).
ParsePayload(buf) ==
  LET bad == [ok |-> FALSE, name |-> <<>>, arguments |-> <<>>]
  IN IF buf = <<>> \/ Head(buf) # "OPEN" THEN bad
     ELSE LET n == ScanString(Tail(buf), {"MID"}, <<>>)
          IN IF ~n.ok THEN bad
             ELSE LET a == ScanString(Tail(n.rest), {"CLOSE"}, <<>>)
                  IN IF ~a.ok \/ ~AllIn(Tail(a.rest), JsonWhitespace) THEN bad
                     ELSE [ok |-> TRUE, name |-> n.value, arguments |-> a.value]

RECURSIVE SkipWs(_)
SkipWs(s) ==
  IF s # <<>> /\ Head(s) \in JsonWhitespace THEN SkipWs(Tail(s)) ELSE s

RECURSIVE SkipDigits(_)
SkipDigits(s) ==
  IF s # <<>> /\ Head(s) = "1" THEN SkipDigits(Tail(s)) ELSE s

\* Whether JSON.parse(payload.function_call.arguments) returns: over the
\* model's characters a JSON text is a number or a string literal, with
\* whitespace around it.
ParsesAsJson(args) ==
  LET s == SkipWs(args)
  IN IF s = <<>> THEN FALSE
     ELSE IF Head(s) = "1" THEN SkipWs(SkipDigits(s)) = <<>>
     ELSE IF Head(s) = "DQ"
       THEN LET b == ScanString(Tail(s), {"DQ"}, <<>>)
            IN b.ok /\ SkipWs(Tail(b.rest)) = <<>>
     ELSE FALSE

\* ------------------------------------------------------------------ provider chunks
\* One decoded provider event.  A chat chunk has choices[0].delta with the
\* optional fields content and function_call {name, arguments}; a legacy
\* chunk has choices[0].text and no delta.  Undef stands for an absent field;
\* ids says that conversation_id and parent_message_id are both present.
ChatChunk(content, name, args, finish, ids) ==
  [shape |-> "chat", content |-> content, name |-> name, args |-> args,
   finish |-> finish, ids |-> ids, text |-> Undef]

LegacyChunk(text, finish) ==
  [shape |-> "legacy", content |-> Undef, name |-> Undef, args |-> Undef,
   finish |-> finish, ids |-> FALSE, text |-> text]

Content(c) == ChatChunk(c, Undef, Undef, NoFinish, FALSE)
ContentWithIds(c) == ChatChunk(c, Undef, Undef, NoFinish, TRUE)
NameChunk(n) == ChatChunk(Undef, n, Undef, NoFinish, FALSE)
ArgsChunk(a) == ChatChunk(Undef, Undef, a, NoFinish, FALSE)
FinishChunk(r) == ChatChunk(Undef, Undef, Undef, r, FALSE)

\* JavaScript truthiness of an optional string field
Truthy(v) == v # Undef /\ v # <<>>

isChatCompletionChunk(json) == json.shape = "chat"
isCompletion(json) == json.shape = "legacy"

\* `${v}` for an optional string
Interpolate(v) == IF v = Undef THEN <<"UNDEF">> ELSE v

\* A mutant of chunkToText: the side-channel ids are never appended.
chunkToTextNoSuffix(st, json) ==
  IF isChatCompletionChunk(json) /\ Truthy(json.name)
    THEN [threw |-> FALSE, fn |-> TRUE, start |-> st.start,
          text |-> <<"OPEN">> \o json.name \o <<"MID">>]
  ELSE IF isChatCompletionChunk(json) /\ Truthy(json.args)
    THEN [threw |-> FALSE, fn |-> st.fn, start |-> st.start,
          text |-> EscapeArguments(json.args)]
  ELSE IF st.fn /\ json.finish \in {"function_call", "stop"}
    THEN [threw |-> FALSE, fn |-> FALSE, start |-> st.start, text |-> <<"CLOSE">>]
  ELSE IF ~isChatCompletionChunk(json)
    THEN [threw |-> TRUE, fn |-> st.fn, start |-> st.start, text |-> <<>>]
  ELSE LET content == json.content
           t == trimStartOfStream(st.start,
                                  IF Truthy(content) THEN content ELSE <<>>)
       IN [threw |-> FALSE, fn |-> st.fn, start |-> t[2], text |-> t[1]]

\* The closure chunkToText() returns, applied to one chunk.  st is the
\* closure's state: fn is its isFunctionStreamingIn (undefined, hence falsy,
\* at first), start is the trimmer's isStreamStart.
\* Result: [threw, text, fn, start]; threw = TRUE is the TypeError of reading
\* choices[0].delta.content on a chunk that has no delta.
chunkToText(st, json) ==
  IF isChatCompletionChunk(json) /\ Truthy(json.name)
    THEN [threw |-> FALSE, fn |-> TRUE, start |-> st.start,
          text |-> <<"OPEN">> \o json.name \o <<"MID">>]
  ELSE IF isChatCompletionChunk(json) /\ Truthy(json.args)
    THEN [threw |-> FALSE, fn |-> st.fn, start |-> st.start,
          text |-> EscapeArguments(json.args)]
  ELSE IF st.fn /\ json.finish \in {"function_call", "stop"}
    THEN [threw |-> FALSE, fn |-> FALSE, start |-> st.start, text |-> <<"CLOSE">>]
  ELSE IF ~isChatCompletionChunk(json)
    THEN [threw |-> TRUE, fn |-> st.fn, start |-> st.start, text |-> <<>>]
  ELSE LET content == IF json.ids
                        THEN Interpolate(json.content) \o <<"IDS">>
                        ELSE json.content
           t == trimStartOfStream(st.start,
                                  IF Truthy(content) THEN content ELSE <<>>)
       IN [threw |-> FALSE, fn |-> st.fn, start |-> t[2], text |-> t[1]]

\* ------------------------------------------------------------------ output events
\* getStreamString(type, value): the record "<prefix>:<JSON of value>\n"
getStreamString(type, value) == [kind |-> type, payload |-> value]

\* Bytes enqueued as they are, outside the envelope
RawBytes(text) == [kind |-> "raw", payload |-> text]

\* ------------------------------------------------------------------ state
Levels == 0..MaxDepth

VARIABLES
  cc,           \* the createChatCompletion call the top-level stream came from
  sibling,      \* a second OpenAIStream made with the caller's callbacks object
  hasHandler,   \* callbacks.experimental_onFunctionCall is registered
  complexMode,  \* callbacks.experimental_streamData (isComplexMode)
  pool,         \* the provider chunks an upstream source may deliver
  consumer,     \* the reader of the top-level stream: "reading" or "cancelled"
  pc,           \* per level: "absent", "streaming" (transform phase), "handler"
                \* (flush awaits the handler), "relay" (flush is in its reader
                \* loop), "closed", "errored", "cancelled"
  fed,          \* per level: the provider chunks its upstream delivered so far
  srcOpen,      \* per level: its upstream source is open (not ended, not released)
  ex,           \* per level: the state of the chunkToText closure
  tr,           \* per level: the state of the createFunctionCallTransformer closure
  cbAggregated, \* aggregatedResponse of the callbacks transformer (no handler)
  onFinalSet,   \* per level: the callbacks object of that level has an onFinal
  emitted,      \* per level: every event enqueued on its readable side, in order
  relayed,      \* per level: how many of its events its parent's loop has read
  callStart,    \* per level: how many events it had enqueued when its loop began
  handled,      \* per level: the payloads experimental_onFunctionCall was called with
  returned,     \* per level: what the handler returned ("none" before it did)
  functionCallMessages, \* per level: the closure's list of earlier messages
  built,        \* per level: the results its handler gave the message builder
  building,     \* the ways the registered handler may call the message builder
  finals,       \* the onFinal invocations so far, in order
  fault         \* per level: what made it fail ("no" while it has not)

vars == <<cc, sibling, hasHandler, complexMode, pool, consumer, pc, fed, srcOpen, ex, tr,
          cbAggregated, onFinalSet, emitted, relayed, callStart, handled,
          returned, functionCallMessages, built, building, finals, fault>>

\* Level 0 is OpenAIStream(res, callbacks) as the caller made it; level d+1 is
\* the OpenAIStream that level d's flush makes of the handler's response, whose
\* callbacks are a copy of level d's, handler included.
HandlerAt(d) == IF d = 0 THEN hasHandler ELSE TRUE

\* The number of chunks the upstream sources have delivered, levels d..MaxDepth
RECURSIVE Delivered(_)
Delivered(d) == IF d > MaxDepth THEN 0 ELSE Len(fed[d]) + Delivered(d + 1)

\* The events of level d that its reader has not read yet
Queue(d) == SubSeq(emitted[d], relayed[d] + 1, Len(emitted[d]))

\* Nothing was caught, nothing was returned
NoError ==
  [thrown |-> FALSE, api |-> FALSE, body |-> FALSE, cause |-> FALSE,
   serializable |-> TRUE]
NoResult == [kind |-> "none", errorType |-> "", endpoint |-> "", error |-> ""]

\* No createChatCompletion call: the caller made the top-level stream itself
NoRequest ==
  [phase |-> "none", calls |-> 0, caught |-> NoError, result |-> NoResult]

\* A small pool: plain text and the three chunks of one call
SharedPool ==
  { Content(<<"a">>), NameChunk(<<"f">>), ArgsChunk(<<"1">>),
    FinishChunk("function_call") }

\* No second stream has been made.  Once made, the record holds what the
\* variables above hold of the first: its position, the chunks delivered, its
\* closures' states, the onFinal its callbacks transformer was given, its
\* events and the arguments of its onFinal invocations.
NoSibling ==
  [pc |-> "absent", fed |-> <<>>,
   ex |-> [fn |-> FALSE, start |-> TRUE],
   tr |-> [isFirstChunk |-> TRUE, aggregatedResponse |-> <<>>,
           aggregatedFinalCompletionResponse |-> <<>>,
           isFunctionStreamingIn |-> FALSE],
   cbAggregated |-> <<>>, cbOnFinal |-> FALSE,
   emitted |-> <<>>, finals |-> <<>>]

\* The chunks the upstream sources of the specification Spec deliver
ChunkPool ==
  { Content(<<"a">>), Content(<<"SP">>), ContentWithIds(<<"a">>),
    ContentWithIds(Undef), Content(<<"FC">>),
    NameChunk(<<"f">>), ArgsChunk(<<"1">>), FinishChunk("function_call") }

\* A content text that spells a whole function call, as the extractor would
InBandCall == <<"OPEN", "f", "MID", "1", "CLOSE">>

\* The chunks of the specification SpecCalls: calls in fragments and in band
CallPool ==
  { Content(InBandCall),
    NameChunk(<<"f">>), ArgsChunk(<<"1">>), FinishChunk("function_call") }

\* The chunks of the specification SpecLegacy: legacy completions, and a call
LegacyPool ==
  { LegacyChunk(<<"a">>, NoFinish), LegacyChunk(<<"SP">>, "stop"),
    NameChunk(<<"f">>), ArgsChunk(<<"1">>), FinishChunk("function_call") }

\* The characters an argument fragment is drawn from in SpecEsc
EscapeAlphabet ==
  {"a", "n", "BS", "DQ", "SL", "NL", "CR", "TAB", "FF", "BSP"}

\* The chunks of SpecEsc for the character c: a call whose argument fragments
\* are a double quote or c
EscPool(c) ==
  { NameChunk(<<"f">>), ArgsChunk(<<"DQ">>), ArgsChunk(<<c>>),
    FinishChunk("function_call") }

\* What the handler may return as a string
HandlerStrings == { <<>>, <<"a">> }

InitOf(p, b) ==
  /\ cc = NoRequest
  /\ building = b
  /\ sibling = NoSibling
  /\ hasHandler \in BOOLEAN
  /\ complexMode \in BOOLEAN
  /\ pool = p
  /\ consumer = "reading"
  /\ pc = [d \in Levels |-> IF d = 0 THEN "streaming" ELSE "absent"]
  /\ fed = [d \in Levels |-> <<>>]
  /\ srcOpen = [d \in Levels |-> d = 0]
  /\ ex = [d \in Levels |-> [fn |-> FALSE, start |-> TRUE]]
  /\ tr = [d \in Levels |->
            [isFirstChunk |-> TRUE, aggregatedResponse |-> <<>>,
             aggregatedFinalCompletionResponse |-> <<>>,
             isFunctionStreamingIn |-> FALSE]]
  /\ cbAggregated = <<>>
  /\ onFinalSet = [d \in Levels |-> d = 0]
  /\ emitted = [d \in Levels |-> <<>>]
  /\ relayed = [d \in Levels |-> 0]
  /\ callStart = [d \in Levels |-> 0]
  /\ handled = [d \in Levels |-> <<>>]
  /\ returned = [d \in Levels |-> "none"]
  /\ functionCallMessages = [d \in Levels |-> <<>>]
  /\ built = [d \in Levels |-> <<>>]
  /\ finals = <<>>
  /\ fault = [d \in Levels |-> "no"]

\* The results a handler gives the builder, in order, before it returns: it
\* does not call it, calls it once, or calls it twice.
BuilderCalls == { <<>>, <<<<"a">>>>, <<<<"a">>, <<"DQ">>>> }

\* The streams of a caller whose handler leaves the message builder alone
InitWith(p) == InitOf(p, {<<>>})

Init == InitWith(ChunkPool)

InitCalls == InitWith(CallPool)

InitLegacy == InitWith(LegacyPool)

\* Calls and plain text, with a handler that calls the builder in any of the
\* ways above
InitMessages == InitOf(SharedPool, BuilderCalls)

InitEsc == \E c \in EscapeAlphabet : InitWith(EscPool(c))

\* ------------------------------------------------------------------ the pipeline
\* A mutant of UsesFunctionCallTransformer: the aggregator is always installed.
AlwaysUsesFunctionCallTransformer(handler) == TRUE

\* OpenAIStream pipes the text through createFunctionCallTransformer when a
\* handler is registered, and through createStreamDataTransformer when not.
UsesFunctionCallTransformer(handler) == handler

\* message.startsWith('{"function_call":')
StartsWithFunctionCall(message) ==
  message # <<>> /\ Head(message) \in {"OPEN", "FC"}

\* A mutant of transform: the text for onFinal is aggregated only on the path
\* that forwards the chunk, after the early return of the buffering path.
transformAggregatesForwardedOnly(t, message, complex) ==
  LET final == t.aggregatedFinalCompletionResponse \o message
  IN IF t.isFirstChunk /\ StartsWithFunctionCall(message)
       THEN [t |-> [t EXCEPT !.isFunctionStreamingIn = TRUE,
                             !.aggregatedResponse = @ \o message,
                             !.isFirstChunk = FALSE],
             emit |-> <<>>]
     ELSE IF ~t.isFunctionStreamingIn
       THEN [t |-> [t EXCEPT !.aggregatedFinalCompletionResponse = final],
             emit |-> <<IF complex THEN getStreamString("text", message)
                        ELSE RawBytes(message)>>]
     ELSE [t |-> [t EXCEPT !.aggregatedResponse = @ \o message],
           emit |-> <<>>]

\* A mutant of transform: a chunk that arrives while buffering is forwarded as
\* well as buffered.
transformForwardsWhileBuffering(t, message, complex) ==
  LET final == t.aggregatedFinalCompletionResponse \o message
      event == IF complex THEN getStreamString("text", message)
               ELSE RawBytes(message)
  IN IF t.isFirstChunk /\ StartsWithFunctionCall(message)
       THEN [t |-> [t EXCEPT !.aggregatedFinalCompletionResponse = final,
                             !.isFunctionStreamingIn = TRUE,
                             !.aggregatedResponse = @ \o message,
                             !.isFirstChunk = FALSE],
             emit |-> <<>>]
     ELSE IF ~t.isFunctionStreamingIn
       THEN [t |-> [t EXCEPT !.aggregatedFinalCompletionResponse = final],
             emit |-> <<event>>]
     ELSE [t |-> [t EXCEPT !.aggregatedFinalCompletionResponse = final,
                           !.aggregatedResponse = @ \o message],
           emit |-> <<event>>]

\* createFunctionCallTransformer's transform(chunk, controller) on the decoded
\* message.  Result: [t, emit]: the closure's state after it and the events it
\* enqueued.
transform(t, message, complex) ==
  LET final == t.aggregatedFinalCompletionResponse \o message
  IN IF t.isFirstChunk /\ StartsWithFunctionCall(message)
       THEN [t |-> [t EXCEPT !.aggregatedFinalCompletionResponse = final,
                             !.isFunctionStreamingIn = TRUE,
                             !.aggregatedResponse = @ \o message,
                             !.isFirstChunk = FALSE],
             emit |-> <<>>]
     ELSE IF ~t.isFunctionStreamingIn
       THEN [t |-> [t EXCEPT !.aggregatedFinalCompletionResponse = final],
             emit |-> <<IF complex THEN getStreamString("text", message)
                        ELSE RawBytes(message)>>]
     ELSE [t |-> [t EXCEPT !.aggregatedFinalCompletionResponse = final,
                           !.aggregatedResponse = @ \o message],
           emit |-> <<>>]

\* createStreamDataTransformer(experimental_streamData) on one message
streamDataTransform(message, complex) ==
  IF complex THEN getStreamString("text", message) ELSE RawBytes(message)

\* isEndOfFunction in flush
isEndOfFunction(t, handler) ==
  ~t.isFirstChunk /\ handler /\ t.isFunctionStreamingIn

\* A mutant of Finally: the block is plain code after the try, which an
\* exception skips.
FinallySkippedByThrow(d, set, own, thrown) ==
  IF ~thrown /\ set /\ tr[d].aggregatedFinalCompletionResponse # <<>>
  THEN Append(finals, [level |-> d,
                       text |-> tr[d].aggregatedFinalCompletionResponse,
                       own |-> own,
                       top |-> IF d = 0 THEN own ELSE Len(emitted[0])])
  ELSE finals

\* The finally block of flush: onFinal(aggregatedFinalCompletionResponse) when
\* the callbacks object still has an onFinal and the text is not empty,
\* whether the try block threw or not.
\* Result: the onFinal invocations after it.  An invocation is recorded with
\* its level, its argument, the number of events that level has enqueued by
\* then (own) and the number the top-level stream has (top).
Finally(d, set, own, thrown) ==
  IF set /\ tr[d].aggregatedFinalCompletionResponse # <<>>
  THEN Append(finals, [level |-> d,
                       text |-> tr[d].aggregatedFinalCompletionResponse,
                       own |-> own,
                       top |-> IF d = 0 THEN own ELSE Len(emitted[0])])
  ELSE finals

\* Every loop of flush that still runs has enqueued what its continuation
\* gave it: the loops run in microtasks, which are done before the next chunk,
\* end of stream, handler result or cancellation arrives.
Settled ==
  \A d \in Levels :
    (d > 0 /\ pc[d - 1] = "relay" /\ pc[d] # "errored") => Queue(d) = <<>>

\* A reader is waiting for level d's next event: the consumer of the top-level
\* stream until it cancels; for a continuation, its parent's loop.
Demand(d) ==
  IF d = 0 THEN consumer = "reading" ELSE pc[d - 1] = "relay"

\* controller.enqueue succeeds on level d: it throws on a cancelled stream.
EnqueueOk(d) == ~(d = 0 /\ consumer = "cancelled")

\* streamable pulls one chunk from the upstream source of level d, extracts its
\* text and, if there is any, yields it into the pipeline: the callbacks
\* transformer, then the function-call transformer or the stream-data one.
\* A chunk the extractor throws on errors the stream; flush does not run.
Pull(d) ==
  /\ pc[d] = "streaming"
  /\ Len(fed[d]) < MaxChunks
  /\ Delivered(0) < MaxTotal
  /\ Demand(d)
  /\ Settled
  /\ \E json \in pool :
       LET r == chunkToText(ex[d], json)
           x == transform(tr[d], r.text, complexMode)
       IN /\ fed' = [fed EXCEPT ![d] = Append(@, json)]
          /\ ex' = [ex EXCEPT ![d] = [fn |-> r.fn, start |-> r.start]]
          /\ IF r.threw
               THEN /\ pc' = [pc EXCEPT ![d] = "errored"]
                    /\ fault' = [fault EXCEPT ![d] = "extract"]
                    /\ srcOpen' = [srcOpen EXCEPT ![d] = FALSE]
                    /\ UNCHANGED <<tr, emitted, cbAggregated>>
             ELSE IF r.text = <<>>
               THEN UNCHANGED <<pc, fault, srcOpen, tr, emitted, cbAggregated>>
             ELSE IF UsesFunctionCallTransformer(HandlerAt(d))
               THEN /\ tr' = [tr EXCEPT ![d] = x.t]
                    /\ emitted' = [emitted EXCEPT ![d] = @ \o x.emit]
                    /\ UNCHANGED <<pc, fault, srcOpen, cbAggregated>>
             ELSE /\ cbAggregated' = cbAggregated \o r.text
                  /\ emitted' = [emitted EXCEPT
                       ![d] = Append(@, streamDataTransform(r.text, complexMode))]
                  /\ UNCHANGED <<pc, fault, srcOpen, tr>>
  /\ UNCHANGED <<cc, sibling, hasHandler, complexMode, pool, consumer, onFinalSet, relayed,
                 callStart, handled, returned, finals,
                 functionCallMessages, built, building>>

\* flush of the callbacks transformer, which is given the caller's onFinal only
\* when no handler is registered: onFinal(aggregatedResponse).
callbacksFlush(set, own) ==
  IF set
  THEN Append(finals, [level |-> 0, text |-> cbAggregated, own |-> own,
                       top |-> own])
  ELSE finals

\* The upstream source of level d may end now
FlushReady(d) == pc[d] = "streaming" /\ Settled

\* A mutant of PayloadOk: the arguments text is handed over unparsed.
PayloadOkWithoutArguments(buf) == ParsePayload(buf).ok

\* Both JSON.parse calls of flush return
PayloadOk(buf) ==
  ParsePayload(buf).ok /\ ParsesAsJson(ParsePayload(buf).arguments)

\* The argument experimental_onFunctionCall is called with: the name and the
\* arguments text the payload carries (the handler gets the value it parses to)
HandlerPayload(buf) ==
  [name |-> ParsePayload(buf).name, arguments |-> ParsePayload(buf).arguments]

\* A mutant of NoResponseEvent: the call is wrapped in the envelope in both
\* modes.
NoResponseEventEnveloped(t, complex) ==
  getStreamString("function_call", t.aggregatedResponse)

\* The event flush enqueues when the handler returned nothing
NoResponseEvent(t, complex) ==
  IF complex THEN getStreamString("function_call", t.aggregatedResponse)
  ELSE RawBytes(t.aggregatedResponse)

\* The event flush enqueues when the handler returned a string
StringResponseEvent(functionResponse, complex) ==
  IF complex THEN getStreamString("text", functionResponse)
  ELSE RawBytes(functionResponse)

\* End of the upstream of level d where flush finds no function call to
\* handle: nothing is emitted, the finally block runs, the stream closes.
\* Without a handler it is the callbacks transformer's flush that runs.
EndOfStream(d) ==
  /\ FlushReady(d)
  /\ ~(UsesFunctionCallTransformer(HandlerAt(d))
        /\ isEndOfFunction(tr[d], HandlerAt(d)))
  /\ finals' = IF UsesFunctionCallTransformer(HandlerAt(d))
                 THEN Finally(d, onFinalSet[d], Len(emitted[d]), FALSE)
                 ELSE callbacksFlush(onFinalSet[d], Len(emitted[d]))
  /\ pc' = [pc EXCEPT ![d] = "closed"]
  /\ srcOpen' = [srcOpen EXCEPT ![d] = FALSE]
  /\ UNCHANGED <<cc, sibling, hasHandler, complexMode, pool, consumer, fed, ex, tr,
                 cbAggregated, onFinalSet, emitted, relayed, callStart, handled,
                 returned, fault,
                 functionCallMessages, built, building>>

\* End of the upstream while buffering, and one of the JSON.parse calls
\* throws: the finally block runs and the rejected flush errors the stream.
EndMalformed(d) ==
  /\ FlushReady(d)
  /\ UsesFunctionCallTransformer(HandlerAt(d))
  /\ isEndOfFunction(tr[d], HandlerAt(d))
  /\ ~PayloadOk(tr[d].aggregatedResponse)
  /\ tr' = [tr EXCEPT ![d].isFunctionStreamingIn = FALSE]
  /\ finals' = Finally(d, onFinalSet[d], Len(emitted[d]), TRUE)
  /\ pc' = [pc EXCEPT ![d] = "errored"]
  /\ fault' = [fault EXCEPT ![d] = "parse"]
  /\ srcOpen' = [srcOpen EXCEPT ![d] = FALSE]
  /\ UNCHANGED <<cc, sibling, hasHandler, complexMode, pool, consumer, fed, ex,
                 cbAggregated, onFinalSet, emitted, relayed, callStart, handled,
                 returned,
                 functionCallMessages, built, building>>

\* End of the upstream while buffering, and both JSON.parse calls return:
\* flush calls experimental_onFunctionCall and awaits its promise.
CallHandler(d) ==
  /\ FlushReady(d)
  /\ UsesFunctionCallTransformer(HandlerAt(d))
  /\ isEndOfFunction(tr[d], HandlerAt(d))
  /\ PayloadOk(tr[d].aggregatedResponse)
  /\ tr' = [tr EXCEPT ![d].isFunctionStreamingIn = FALSE]
  /\ handled' = [handled EXCEPT
       ![d] = Append(@, HandlerPayload(tr[d].aggregatedResponse))]
  /\ pc' = [pc EXCEPT ![d] = "handler"]
  /\ srcOpen' = [srcOpen EXCEPT ![d] = FALSE]
  /\ UNCHANGED <<cc, sibling, hasHandler, complexMode, pool, consumer, fed, ex,
                 cbAggregated, onFinalSet, emitted, relayed, callStart,
                 returned, finals, fault,
                 functionCallMessages, built, building>>

\* What flush does with the one event e it has for a handler that returned
\* nothing or a string: enqueue it, run the finally block and close; on a
\* cancelled stream enqueue throws and the rejected flush errors the stream.
EnqueueAndFinish(d, e) ==
  IF EnqueueOk(d)
  THEN /\ emitted' = [emitted EXCEPT ![d] = Append(@, e)]
       /\ finals' = Finally(d, onFinalSet[d], Len(emitted[d]) + 1, FALSE)
       /\ pc' = [pc EXCEPT ![d] = "closed"]
       /\ UNCHANGED fault
  ELSE /\ finals' = Finally(d, onFinalSet[d], Len(emitted[d]), TRUE)
       /\ pc' = [pc EXCEPT ![d] = "errored"]
       /\ fault' = [fault EXCEPT ![d] = "enqueue"]
       /\ UNCHANGED emitted

\* The handler returns nothing (undefined): the buffered call is enqueued as
\* one event.
HandlerReturnsNothing(d) ==
  /\ pc[d] = "handler"
  /\ Settled
  /\ EnqueueAndFinish(d, NoResponseEvent(tr[d], complexMode))
  /\ returned' = [returned EXCEPT ![d] = "nothing"]
  /\ UNCHANGED <<cc, sibling, hasHandler, complexMode, pool, consumer, fed, srcOpen, ex, tr,
                 cbAggregated, onFinalSet, relayed, callStart, handled,
                 functionCallMessages, built, building>>

\* The handler returns a string: the empty string is falsy and takes the
\* branch of a handler that returned nothing.
HandlerReturnsString(d) ==
  /\ pc[d] = "handler"
  /\ Settled
  /\ \E functionResponse \in HandlerStrings :
       EnqueueAndFinish(d, IF functionResponse = <<>>
                             THEN NoResponseEvent(tr[d], complexMode)
                             ELSE StringResponseEvent(functionResponse, complexMode))
  /\ returned' = [returned EXCEPT ![d] = "string"]
  /\ UNCHANGED <<cc, sibling, hasHandler, complexMode, pool, consumer, fed, srcOpen, ex, tr,
                 cbAggregated, onFinalSet, relayed, callStart, handled,
                 functionCallMessages, built, building>>

\* The handler throws (or its promise rejects): the finally block runs and
\* the rejected flush errors the stream.
HandlerThrows(d) ==
  /\ pc[d] = "handler"
  /\ Settled
  /\ returned' = [returned EXCEPT ![d] = "throw"]
  /\ finals' = Finally(d, onFinalSet[d], Len(emitted[d]), TRUE)
  /\ pc' = [pc EXCEPT ![d] = "errored"]
  /\ fault' = [fault EXCEPT ![d] = "handler"]
  /\ UNCHANGED <<cc, sibling, hasHandler, complexMode, pool, consumer, fed, srcOpen, ex, tr,
                 cbAggregated, onFinalSet, emitted, relayed, callStart, handled,
                 functionCallMessages, built, building>>

\* A mutant of ParentKeepsOnFinal: callbacks.onFinal is left in place.
ParentKeepsOnFinalAlways(set) == set

\* Whether the callbacks object of a level still has its onFinal once its
\* flush has started a continuation: callbacks.onFinal = undefined.
ParentKeepsOnFinal(set) == FALSE

\* The onFinal of the callbacks the continuation is made with:
\* filteredCallbacks is copied from callbacks before callbacks.onFinal is
\* cleared, and only its onStart is removed.
ContinuationOnFinal(set) == set

\* JSON.stringify of a string result
JsonStringify(result) ==
  <<"DQ">> \o ReplaceAll(ReplaceAll(result, "BS", <<"BS", "BS">>),
                         "DQ", <<"BS", "DQ">>)
          \o <<"DQ">>

\* The two messages the builder makes of a call and its result
CallMessages(payload, result) ==
  << [role |-> "assistant", name |-> Undef, content |-> <<>>,
      function_call |-> payload],
     [role |-> "function", name |-> payload.name,
      content |-> JsonStringify(result),
      function_call |-> [name |-> Undef, arguments |-> Undef]] >>

\* A mutant of createFunctionCallMessages: the pair is appended to the list
\* built so far.
createFunctionCallMessagesAppending(earlier, current, payload, result) ==
  current \o CallMessages(payload, result)

\* The builder handed to the handler, createFunctionCallMessages(result), in a
\* flush whose functionCallMessages is earlier and whose
\* newFunctionCallMessages is current.  Result: newFunctionCallMessages after
\* it, which is also what it returns.
createFunctionCallMessages(earlier, current, payload, result) ==
  earlier \o CallMessages(payload, result)

\* newFunctionCallMessages when the handler returns: a copy of
\* functionCallMessages, then whatever the builder calls made of it
RECURSIVE newFunctionCallMessages(_, _, _, _)
newFunctionCallMessages(earlier, current, payload, results) ==
  IF results = <<>> THEN current
  ELSE newFunctionCallMessages(
         earlier,
         createFunctionCallMessages(earlier, current, payload, Head(results)),
         payload, Tail(results))

\* The handler returns a new upstream (a Response or an async iterable):
\* flush makes an OpenAIStream of it, takes its reader and enters its loop.
\* The continuation's closure takes newFunctionCallMessages as its
\* functionCallMessages.
HandlerReturnsStream(d) ==
  /\ pc[d] = "handler"
  /\ Settled
  /\ d < MaxDepth
  /\ \E results \in building :
       /\ built' = [built EXCEPT ![d] = results]
       /\ functionCallMessages' = [functionCallMessages EXCEPT
            ![d + 1] = newFunctionCallMessages(
                         functionCallMessages[d], functionCallMessages[d],
                         handled[d][Len(handled[d])], results)]
  /\ returned' = [returned EXCEPT ![d] = "stream"]
  /\ onFinalSet' = [onFinalSet EXCEPT
       ![d] = ParentKeepsOnFinal(onFinalSet[d]),
       ![d + 1] = ContinuationOnFinal(onFinalSet[d])]
  /\ callStart' = [callStart EXCEPT ![d] = Len(emitted[d])]
  /\ pc' = [pc EXCEPT ![d] = "relay", ![d + 1] = "streaming"]
  /\ srcOpen' = [srcOpen EXCEPT ![d + 1] = TRUE]
  /\ UNCHANGED <<cc, sibling, hasHandler, complexMode, pool, consumer, fed, ex, tr,
                 cbAggregated, emitted, relayed, handled, finals, fault,
                 building>>

\* A mutant of RelayedValue: the value read is wrapped again as a text event.
RelayedValueRewrapped(value) == getStreamString("text", value.payload)

\* What the loop enqueues for a value it read from the continuation
RelayedValue(value) == value

\* One turn of the loop of flush: reader.read() returns an event of the
\* continuation and controller.enqueue(value) passes it on.
Relay(d) ==
  /\ d < MaxDepth
  /\ pc[d] = "relay"
  /\ pc[d + 1] # "errored"
  /\ Queue(d + 1) # <<>>
  /\ EnqueueOk(d)
  /\ emitted' = [emitted EXCEPT ![d] = Append(@, RelayedValue(Head(Queue(d + 1))))]
  /\ relayed' = [relayed EXCEPT ![d + 1] = @ + 1]
  /\ UNCHANGED <<cc, sibling, hasHandler, complexMode, pool, consumer, pc, fed, srcOpen, ex,
                 tr, cbAggregated, onFinalSet, callStart, handled, returned,
                 finals, fault,
                 functionCallMessages, built, building>>

\* reader.read() returns done: the loop ends, the finally block runs and the
\* stream closes.
RelayDone(d) ==
  /\ d < MaxDepth
  /\ pc[d] = "relay"
  /\ pc[d + 1] = "closed"
  /\ Queue(d + 1) = <<>>
  /\ finals' = Finally(d, onFinalSet[d], Len(emitted[d]), FALSE)
  /\ pc' = [pc EXCEPT ![d] = "closed"]
  /\ UNCHANGED <<cc, sibling, hasHandler, complexMode, pool, consumer, fed, srcOpen, ex, tr,
                 cbAggregated, onFinalSet, emitted, relayed, callStart, handled,
                 returned, fault,
                 functionCallMessages, built, building>>

\* reader.read() rejects because the continuation errored: flush throws, the
\* finally block runs and the stream errors.
RelayFails(d) ==
  /\ d < MaxDepth
  /\ pc[d] = "relay"
  /\ pc[d + 1] = "errored"
  /\ finals' = Finally(d, onFinalSet[d], Len(emitted[d]), TRUE)
  /\ pc' = [pc EXCEPT ![d] = "errored"]
  /\ fault' = [fault EXCEPT ![d] = "read"]
  /\ UNCHANGED <<cc, sibling, hasHandler, complexMode, pool, consumer, fed, srcOpen, ex, tr,
                 cbAggregated, onFinalSet, emitted, relayed, callStart, handled,
                 returned,
                 functionCallMessages, built, building>>

\* The consumer cancels the top-level stream.  The transformer has no cancel
\* hook: in the transform phase the pipe is torn down, the upstream source is
\* cancelled and flush never runs; a flush that has started is told nothing.
Cancel ==
  /\ consumer = "reading"
  /\ pc[0] \in {"streaming", "handler", "relay"}
  /\ Settled
  /\ consumer' = "cancelled"
  /\ IF pc[0] = "streaming"
       THEN /\ pc' = [pc EXCEPT ![0] = "cancelled"]
            /\ srcOpen' = [srcOpen EXCEPT ![0] = FALSE]
       ELSE UNCHANGED <<pc, srcOpen>>
  /\ UNCHANGED <<cc, sibling, hasHandler, complexMode, pool, fed, ex, tr, cbAggregated,
                 onFinalSet, emitted, relayed, callStart, handled, returned,
                 finals, fault,
                 functionCallMessages, built, building>>

\* The loop of flush reads an event after the consumer cancelled:
\* controller.enqueue throws on the cancelled stream, the finally block runs,
\* and the reader of the continuation is neither cancelled nor released.
RelayIntoCancelled ==
  /\ MaxDepth > 0
  /\ pc[0] = "relay"
  /\ ~EnqueueOk(0)
  /\ pc[1] # "errored"
  /\ Queue(1) # <<>>
  /\ relayed' = [relayed EXCEPT ![1] = @ + 1]
  /\ finals' = Finally(0, onFinalSet[0], Len(emitted[0]), TRUE)
  /\ pc' = [pc EXCEPT ![0] = "errored"]
  /\ fault' = [fault EXCEPT ![0] = "enqueue"]
  /\ UNCHANGED <<cc, sibling, hasHandler, complexMode, pool, consumer, fed, srcOpen, ex, tr,
                 cbAggregated, onFinalSet, emitted, callStart, handled, returned,
                 functionCallMessages, built, building>>

Next ==
  \/ \E d \in Levels : Pull(d)
  \/ \E d \in Levels : EndOfStream(d)
  \/ \E d \in Levels : EndMalformed(d)
  \/ \E d \in Levels : CallHandler(d)
  \/ \E d \in Levels : HandlerReturnsNothing(d)
  \/ \E d \in Levels : HandlerReturnsString(d)
  \/ \E d \in Levels : HandlerThrows(d)
  \/ \E d \in Levels : HandlerReturnsStream(d)
  \/ \E d \in Levels : Relay(d)
  \/ \E d \in Levels : RelayDone(d)
  \/ \E d \in Levels : RelayFails(d)
  \/ Cancel
  \/ RelayIntoCancelled

Spec == Init /\ [][Next]_vars

\* The same pipeline over streams of function calls, in fragments and in band
SpecCalls == InitCalls /\ [][Next]_vars

\* The same pipeline over streams that carry legacy completion chunks
SpecLegacy == InitLegacy /\ [][Next]_vars

\* The same pipeline over calls whose argument fragments range over the
\* characters the extractor escapes and those it does not
SpecEsc == InitEsc /\ [][Next]_vars

\* The same pipeline with handlers that build the continuation's messages
SpecMessages == InitMessages /\ [][Next]_vars

\* ------------------------------------------------------------------ what the claims speak of
\* The concatenation of a sequence of texts
RECURSIVE Flat(_)
Flat(texts) == IF texts = <<>> THEN <<>> ELSE Head(texts) \o Flat(Tail(texts))

\* The payloads of a sequence of events
RECURSIVE Payloads(_)
Payloads(events) ==
  IF events = <<>> THEN <<>> ELSE <<Head(events).payload>> \o Payloads(Tail(events))

\* The texts streamable yields for a sequence of chunks, from extractor state st
RECURSIVE Yielded(_, _)
Yielded(st, chunks) ==
  IF chunks = <<>> THEN <<>>
  ELSE LET r == chunkToText(st, Head(chunks))
       IN IF r.threw THEN <<>>
          ELSE (IF r.text = <<>> THEN <<>> ELSE <<r.text>>)
               \o Yielded([fn |-> r.fn, start |-> r.start], Tail(chunks))

\* The texts the extractor of level d has produced so far
YieldedBy(d) == Yielded([fn |-> FALSE, start |-> TRUE], fed[d])

\* The texts of a sequence that come before the first one that opens a call
RECURSIVE BeforeCall(_)
BeforeCall(texts) ==
  IF texts = <<>> \/ StartsWithFunctionCall(Head(texts)) THEN <<>>
  ELSE <<Head(texts)>> \o BeforeCall(Tail(texts))

\* The event a forwarded text is seen as downstream
TextEvent(text) ==
  IF complexMode THEN [kind |-> "text", payload |-> text]
  ELSE [kind |-> "raw", payload |-> text]

\* The events level d forwards for the texts that come before its call
ForwardedBeforeCall(d) ==
  LET texts == BeforeCall(YieldedBy(d))
  IN [i \in 1..Len(texts) |-> TextEvent(texts[i])]

\* The deepest stream of the chain that exists
Innermost ==
  CHOOSE d \in Levels : pc[d] # "absent" /\ (d = MaxDepth \/ pc[d + 1] = "absent")

\* flush of level d ran to its end (the stream closed) with a continuation
Continued(d) == returned[d] = "stream"

\* C1: when the handler returned a continuation, what a reading consumer has
\* seen of a stream is the events it forwarded before its call started followed
\* by the events of the continuation read so far, unchanged and in order; once
\* the stream closed these are all the events of the continuation.  At every
\* level of nesting.
C1_ContinuationSpliced ==
  \A d \in Levels :
    (d < MaxDepth /\ Continued(d) /\ EnqueueOk(d)) =>
      /\ emitted[d] = ForwardedBeforeCall(d)
                        \o SubSeq(emitted[d + 1], 1, relayed[d + 1])
      /\ callStart[d] = Len(ForwardedBeforeCall(d))
      /\ pc[d] = "closed" => relayed[d + 1] = Len(emitted[d + 1])

\* Reached: a stream forwarded text, then its call was continued, and it closed
\* after relaying two events of the continuation.
C1_Witness ==
  /\ pc[0] = "closed"
  /\ Continued(0)
  /\ callStart[0] > 0
  /\ Len(emitted[1]) >= 2
  /\ consumer = "reading"

C3_CancelFinalizes ==
  (/\ hasHandler
   /\ emitted[0] # <<>>
   /\ consumer = "cancelled"
   /\ pc[0] \in {"cancelled", "closed", "errored"}) =>
    /\ Len(finals) = 1
    /\ \A d \in Levels : ~srcOpen[d]

\* The top-level stream reached its end of stream (flush ran to its end)
\* without a continuation.
EndedWithoutContinuation ==
  pc[0] = "closed" /\ ~Continued(0)

C5_HandlerFault ==
  \A d \in Levels :
    returned[d] = "throw" =>
      /\ pc[d] = "errored"
      /\ emitted[d] = ForwardedBeforeCall(d)
      /\ Len(finals) = 1
      /\ finals[1].level = d
      /\ finals[1].text = Flat(YieldedBy(d))
      /\ \A a \in Levels :
           a < d => \/ pc[a] = "errored"
                    \/ pc[a] = "relay" /\ pc[a + 1] = "errored"

\* Reached: the handler threw in a continuation and the top-level stream
\* ended errored.
C5_Witness ==
  /\ returned[1] = "throw"
  /\ pc[0] = "errored"
  /\ fault[0] = "read"
  /\ Len(finals) = 1

\* flush of level d ran while it was buffering text that does not parse
BufferedMalformed(d) ==
  /\ pc[d] \in {"closed", "errored"}
  /\ fault[d] # "extract"
  /\ UsesFunctionCallTransformer(HandlerAt(d))
  /\ HandlerAt(d)
  /\ ~tr[d].isFirstChunk
  /\ ~PayloadOk(tr[d].aggregatedResponse)

\* C6 as stated: a stream that ends while buffering text that does not parse
\* closes normally, having emitted the buffered text as one function-call
\* event after what it forwarded, without a handler call.
C6_MalformedDegrades ==
  \A d \in Levels :
    BufferedMalformed(d) =>
      /\ pc[d] = "closed"
      /\ handled[d] = <<>>
      /\ emitted[d] = Append(ForwardedBeforeCall(d),
                             NoResponseEvent(tr[d], complexMode))

\* ------------------------------------------------------------------ calls and plain text
\* A stream of chunks that is one complete call: a name chunk, argument
\* fragments of any number, and the finish_reason "function_call" terminator.
CompleteCall(chunks) ==
  /\ Len(chunks) >= 2
  /\ Truthy(chunks[1].name)
  /\ chunks[1] = NameChunk(chunks[1].name)
  /\ chunks[Len(chunks)] = FinishChunk("function_call")
  /\ \A i \in 2..(Len(chunks) - 1) :
       Truthy(chunks[i].args) /\ chunks[i] = ArgsChunk(chunks[i].args)

\* The argument text of a complete call: its fragments as the provider sent them
ArgsText(chunks) ==
  Flat([i \in 1..(Len(chunks) - 2) |-> chunks[i + 1].args])

\* C7 as stated: when the chunks of a stream that has a handler are one
\* complete call, the text buffered for it parses to its name and to an
\* arguments string equal to the concatenation of its fragments as sent.
C7_EscapeRoundTrip ==
  \A d \in Levels :
    (HandlerAt(d) /\ CompleteCall(fed[d])) =>
      LET p == ParsePayload(tr[d].aggregatedResponse)
      IN /\ p.ok
         /\ p.name = fed[d][1].name
         /\ p.arguments = ArgsText(fed[d])

\* The chunks are chat chunks without function-call fragments
PlainChunks(chunks) ==
  \A i \in 1..Len(chunks) :
    /\ isChatCompletionChunk(chunks[i])
    /\ chunks[i].name = Undef
    /\ chunks[i].args = Undef

\* The delta.content fields of chunks, an absent one counting as empty
ContentsOf(chunks) ==
  [i \in 1..Len(chunks) |->
     IF Truthy(chunks[i].content) THEN chunks[i].content ELSE <<>>]

\* A sequence of tokens without its first one when that is empty or whitespace
DropLeadingBlank(tokens) ==
  IF tokens # <<>> /\ TrimStart(Head(tokens)) = <<>> THEN Tail(tokens)
  ELSE tokens

TextOf(json) ==
  IF json.ids THEN Interpolate(json.content) \o <<"IDS">>
  ELSE IF Truthy(json.content) THEN json.content
  ELSE <<>>

TextsOf(chunks) == [i \in 1..Len(chunks) |-> TextOf(chunks[i])]

\* The i-th text is seen to begin with the function-call marker: after the
\* trim when only whitespace came before it, as it is otherwise
OpensCall(texts, i) ==
  StartsWithFunctionCall(
    IF TrimStart(Flat(SubSeq(texts, 1, i - 1))) = <<>>
    THEN TrimStart(texts[i]) ELSE texts[i])

\* The texts that are forwarded: all of them without a handler; with one,
\* those before the first that is seen to begin with the marker
Forwarded(texts) ==
  LET opens == {i \in 1..Len(texts) : hasHandler /\ OpensCall(texts, i)}
  IN IF opens = {} THEN texts
     ELSE SubSeq(texts, 1, (CHOOSE i \in opens : \A j \in opens : i <= j) - 1)

CallText(chunks) ==
  <<"OPEN">> \o chunks[1].name \o <<"MID">>
    \o EscapeArguments(ArgsText(chunks)) \o <<"CLOSE">>

\* C9 as stated: without a handler, a closed stream whose chunks are one
\* complete call has emitted exactly one event, a function-call event, whose
\* payload parses to the call's name and arguments.  (Stated for a call with
\* at least one argument fragment.)
C9_CallEmittedOnceWithoutHandler ==
  (~hasHandler /\ pc[0] = "closed" /\ CompleteCall(fed[0]) /\ Len(fed[0]) >= 3) =>
    /\ Len(emitted[0]) = 1
    /\ emitted[0][1].kind = "function_call"
    /\ ParsePayload(emitted[0][1].payload).ok
    /\ HandlerPayload(emitted[0][1].payload)
         = [name |-> fed[0][1].name, arguments |-> ArgsText(fed[0])]

\* C9, amended: without a handler no function-call event is ever emitted and
\* no handler is called; every text the extractor yields is forwarded as a
\* text event of its own when it arrives, the fragments of a call included.
\* For a complete call the forwarded texts, concatenated, are the text a
\* handler's stream would have buffered, and where that parses it parses to
\* the call's name and arguments.
C9_NoHandlerForwardsCallText ==
  ~hasHandler =>
    /\ \A i \in 1..Len(emitted[0]) : emitted[0][i].kind # "function_call"
    /\ handled[0] = <<>>
    /\ emitted[0] = [i \in 1..Len(YieldedBy(0)) |-> TextEvent(YieldedBy(0)[i])]
    /\ CompleteCall(fed[0]) =>
         /\ Flat(Payloads(emitted[0])) = CallText(fed[0])
         /\ ParsePayload(CallText(fed[0])).ok =>
              HandlerPayload(CallText(fed[0]))
                = [name |-> fed[0][1].name, arguments |-> ArgsText(fed[0])]

\* Reached: without a handler, a complete call of three chunks went out as
\* three text events and the stream closed.
C9_Witness ==
  /\ ~hasHandler
  /\ pc[0] = "closed"
  /\ CompleteCall(fed[0])
  /\ fed[0][2] = ArgsChunk(<<"BS">>)
  /\ Len(fed[0]) = 3
  /\ Len(emitted[0]) = 3
  /\ emitted[0][2].payload = <<"BS", "BS">>

\* flush of level d has run, or is running: its upstream reached its end
FlushRan(d) ==
  /\ HandlerAt(d)
  /\ pc[d] \in {"handler", "relay", "closed", "errored"}
  /\ fault[d] # "extract"

\* The stream carried a fragment of a function call
CarriedCall(chunks) ==
  \E i \in 1..Len(chunks) : Truthy(chunks[i].name) \/ Truthy(chunks[i].args)

\* The text level d buffers: its texts from the first one that begins with the
\* function-call marker on, concatenated
Buffered(d) ==
  LET texts == YieldedBy(d)
      before == Len(BeforeCall(texts))
  IN Flat(SubSeq(texts, before + 1, Len(texts)))

\* C10 as stated: at every level the handler is called at most once, only
\* after the upstream ended and only for a stream that carried a function
\* call, and it is called once flush has run on a complete call.
C10_HandlerOncePerCall ==
  \A d \in Levels :
    /\ Len(handled[d]) <= 1
    /\ handled[d] # <<>> => (~srcOpen[d] /\ CarriedCall(fed[d]))
    /\ (FlushRan(d) /\ CompleteCall(fed[d])) => Len(handled[d]) = 1

\* C10, amended: at every level the handler is called at most once and only
\* after the upstream ended; once flush has run it has been called exactly
\* when the stream buffered text that parses as a call whose arguments parse
\* as JSON, and with what that text parses to, whether the text came from call
\* fragments or from content that spells a call.  For a complete call that is
\* exactly when the concatenation of its argument fragments parses as JSON:
\* without fragments, or with malformed ones, the handler is not called.  Over
\* a chain of continuations the invocations are as many as such levels.
C10_HandlerOncePerParsedCall ==
  \A d \in Levels :
    /\ Len(handled[d]) <= 1
    /\ handled[d] # <<>> => (~srcOpen[d] /\ FlushRan(d))
    /\ FlushRan(d) =>
         LET p == ParsePayload(Buffered(d))
         IN /\ Len(handled[d]) = 1 <=> (p.ok /\ ParsesAsJson(p.arguments))
            /\ handled[d] # <<>> =>
                 handled[d][1] = [name |-> p.name, arguments |-> p.arguments]
    /\ (FlushRan(d) /\ CompleteCall(fed[d])) =>
         /\ Len(handled[d]) = 1 <=> ParsesAsJson(ArgsText(fed[d]))
         /\ handled[d] # <<>> =>
              handled[d][1] = [name |-> fed[d][1].name,
                               arguments |-> ArgsText(fed[d])]

\* Reached: a chain in which the handler was called for a complete call of the
\* top-level stream and again for a call of its continuation.
C10_Witness ==
  /\ pc[0] = "closed"
  /\ CompleteCall(fed[0])
  /\ Len(handled[0]) = 1
  /\ Len(handled[1]) = 1
  /\ returned[1] = "string"

\* ------------------------------------------------------------------ output modes
\* An event is a record: kind "text" is the record "0:<JSON of the text>\n",
\* kind "function_call" the record "1:<JSON of the text>\n", kind "raw" the
\* bytes of the text themselves.

\* The position in emitted[d] of the event flush enqueued for its own call
CallEventAt(d) == Len(ForwardedBeforeCall(d)) + 1

\* flush of level d enqueued the buffered call itself: the handler returned
\* nothing, or the empty string
CallEmitted(d) ==
  /\ pc[d] = "closed"
  /\ returned[d] \in {"nothing", "string"}
  /\ Len(emitted[d]) = CallEventAt(d)
  /\ emitted[d][CallEventAt(d)].payload = tr[d].aggregatedResponse

\* C11 as stated: in both modes the event flush enqueues for a call whose
\* handler returned nothing is a function-call record.
C11_FunctionCallAlwaysEnveloped ==
  \A d \in Levels :
    (pc[d] = "closed" /\ returned[d] = "nothing") =>
      /\ Len(emitted[d]) = CallEventAt(d)
      /\ emitted[d][CallEventAt(d)]
           = getStreamString("function_call", tr[d].aggregatedResponse)

\* C11, amended: in raw mode every event is the bytes of its text, the
\* buffered call of a handler that returned nothing included; in envelope mode
\* every forwarded text is one text record, the call of a handler that
\* returned nothing is one function-call record, and a stream emits no other
\* function-call record of its own (those a continuing stream relays are its
\* continuation's).
C11_ModeDecidesEncoding ==
  \A d \in Levels :
    /\ \A i \in 1..Len(emitted[d]) :
         emitted[d][i].kind \in (IF complexMode THEN {"text", "function_call"}
                                 ELSE {"raw"})
    /\ (HandlerAt(d) /\ Len(emitted[d]) >= Len(ForwardedBeforeCall(d))) =>
         SubSeq(emitted[d], 1, Len(ForwardedBeforeCall(d)))
           = ForwardedBeforeCall(d)
    /\ (pc[d] = "closed" /\ returned[d] = "nothing") =>
         /\ Len(emitted[d]) = CallEventAt(d)
         /\ emitted[d][CallEventAt(d)]
              = [kind |-> IF complexMode THEN "function_call" ELSE "raw",
                 payload |-> tr[d].aggregatedResponse]
    /\ \A i \in 1..Len(emitted[d]) :
         (emitted[d][i].kind = "function_call" /\ ~Continued(d)) =>
           (i = CallEventAt(d) /\ CallEmitted(d))

\* Reached: in raw mode a stream forwarded a text, buffered a call whose
\* handler returned nothing, and closed after enqueueing the call as raw bytes.
C11_Witness ==
  /\ ~complexMode
  /\ pc[0] = "closed"
  /\ returned[0] = "nothing"
  /\ Len(emitted[0]) = 2
  /\ emitted[0][2] = RawBytes(tr[0].aggregatedResponse)

\* C12 as stated: when the handler returned a string, the stream closed after
\* enqueueing exactly one event for the call, the text event of a string the
\* handler may return, and started no continuation.
C12_StringEmittedAsText ==
  \A d \in Levels :
    (returned[d] = "string" /\ pc[d] = "closed") =>
      /\ Len(emitted[d]) = CallEventAt(d)
      /\ emitted[d][CallEventAt(d)]
           \in {StringResponseEvent(s, complexMode) : s \in HandlerStrings}
      /\ d < MaxDepth => pc[d + 1] = "absent"

\* The text C13 gives a content chunk: its content, followed by the suffix
\* when both ids are on the chunk and the chunk has content of its own
SuffixedContent(json) ==
  IF ~Truthy(json.content) THEN <<>>
  ELSE IF json.ids THEN json.content \o <<"IDS">>
  ELSE json.content

IsText(text) == text # <<>>

\* C13 as stated: without a handler, for chat chunks without function-call
\* fragments whose content does not begin with whitespace, the texts emitted
\* are, chunk by chunk, the content followed by the suffix when both ids are
\* present and the chunk has content, and the content alone otherwise.
C13_SuffixOnlyAfterContent ==
  (/\ ~hasHandler
   /\ PlainChunks(fed[0])
   /\ \A i \in 1..Len(fed[0]) :
        TrimStart(ContentsOf(fed[0])[i]) = ContentsOf(fed[0])[i]) =>
    Payloads(emitted[0])
      = SelectSeq([i \in 1..Len(fed[0]) |-> SuffixedContent(fed[0][i])], IsText)

\* ------------------------------------------------------------------ the request boundary
\* createChatCompletion({payload, openai}).  It wraps the provider's response
\* in the OpenAIStream of package 'ai', without callbacks: no handler, raw
\* mode, no onFinal; the stream is followed here through the pipeline above.
\* cc.phase is "idle" before the call, "awaiting" while create() is awaited,
\* "caught" in the catch block, "returned" after a return, "threw" when the
\* function itself rejected; cc.calls counts the create() calls.

\* What the try block may throw.  api: the value is an OpenAI.APIError (an
\* error status of the provider, but also a connection error or a timeout);
\* body: it carries the provider's structured error body (error.error);
\* cause: it has a cause; serializable: JSON.stringify of it returns (it
\* throws on a circular structure or a BigInt).
ThrownValues ==
  { e \in [thrown : {TRUE}, api : BOOLEAN, body : BOOLEAN, cause : BOOLEAN,
           serializable : BOOLEAN] :
      /\ e.body => e.api
      /\ e.api => e.serializable }

\* A mutant of IsBizError: only an error that carries the provider's
\* structured body counts.
IsBizErrorByBody(error) == error.api /\ error.body

\* error instanceof OpenAI.APIError
IsBizError(error) == error.api

\* errorResult of the catch block
ErrorResult(error) ==
  IF error.body THEN "error.error"
  ELSE IF error.cause THEN "error.cause"
  ELSE "{headers, stack, status}"

\* createErrorResponse(errorType, {endpoint, error}): the envelope
createErrorResponse(errorType, error) ==
  [kind |-> "envelope", errorType |-> errorType, endpoint |-> "openai.baseURL",
   error |-> error]

\* No stream exists before createChatCompletion returns one
InitDispatch ==
  /\ cc = [phase |-> "idle", calls |-> 0, caught |-> NoError, result |-> NoResult]
  /\ building = {<<>>}
  /\ sibling = NoSibling
  /\ hasHandler = FALSE
  /\ complexMode = FALSE
  /\ pool = ChunkPool
  /\ consumer = "reading"
  /\ pc = [d \in Levels |-> "absent"]
  /\ fed = [d \in Levels |-> <<>>]
  /\ srcOpen = [d \in Levels |-> FALSE]
  /\ ex = [d \in Levels |-> [fn |-> FALSE, start |-> TRUE]]
  /\ tr = [d \in Levels |->
            [isFirstChunk |-> TRUE, aggregatedResponse |-> <<>>,
             aggregatedFinalCompletionResponse |-> <<>>,
             isFunctionStreamingIn |-> FALSE]]
  /\ cbAggregated = <<>>
  /\ onFinalSet = [d \in Levels |-> FALSE]
  /\ emitted = [d \in Levels |-> <<>>]
  /\ relayed = [d \in Levels |-> 0]
  /\ callStart = [d \in Levels |-> 0]
  /\ handled = [d \in Levels |-> <<>>]
  /\ returned = [d \in Levels |-> "none"]
  /\ functionCallMessages = [d \in Levels |-> <<>>]
  /\ built = [d \in Levels |-> <<>>]
  /\ finals = <<>>
  /\ fault = [d \in Levels |-> "no"]

pipeline == <<sibling, hasHandler, complexMode, pool, consumer, pc, fed, srcOpen, ex,
              tr, cbAggregated, onFinalSet, emitted, relayed, callStart,
              handled, returned, functionCallMessages, built, building,
              finals, fault>>

\* openai.chat.completions.create({messages, ...params, stream: true}, ...)
CreateCompletion ==
  /\ cc.phase = "idle"
  /\ cc' = [cc EXCEPT !.phase = "awaiting", !.calls = @ + 1]
  /\ UNCHANGED pipeline

\* The awaited call resolves: the response is wrapped in OpenAIStream and
\* returned as a StreamingTextResponse.
CreateResolves ==
  /\ cc.phase = "awaiting"
  /\ cc' = [cc EXCEPT !.phase = "returned", !.result.kind = "stream"]
  /\ pc' = [pc EXCEPT ![0] = "streaming"]
  /\ srcOpen' = [srcOpen EXCEPT ![0] = TRUE]
  /\ UNCHANGED <<sibling, hasHandler, complexMode, pool, consumer, fed, ex,
                 tr, cbAggregated, onFinalSet, emitted, relayed, callStart,
                 handled, returned, finals, fault,
                 functionCallMessages, built, building>>

\* The awaited call rejects, or wrapping the response throws: the catch block
\* is entered with the thrown value.
CreateRejects ==
  /\ cc.phase = "awaiting"
  /\ \E e \in ThrownValues : cc' = [cc EXCEPT !.phase = "caught", !.caught = e]
  /\ UNCHANGED pipeline

\* The catch block returns the business-error envelope
ReturnBizError ==
  /\ cc.phase = "caught"
  /\ IsBizError(cc.caught)
  /\ cc' = [cc EXCEPT
       !.phase = "returned",
       !.result = createErrorResponse("OpenAIBizError", ErrorResult(cc.caught))]
  /\ UNCHANGED pipeline

\* The catch block returns the internal-error envelope
ReturnInternalError ==
  /\ cc.phase = "caught"
  /\ ~IsBizError(cc.caught)
  /\ cc.caught.serializable
  /\ cc' = [cc EXCEPT
       !.phase = "returned",
       !.result = createErrorResponse("InternalServerError",
                                      "JSON.stringify(error)")]
  /\ UNCHANGED pipeline

\* JSON.stringify(error) throws inside the catch block: createChatCompletion
\* rejects.
StringifyThrows ==
  /\ cc.phase = "caught"
  /\ ~IsBizError(cc.caught)
  /\ ~cc.caught.serializable
  /\ cc' = [cc EXCEPT !.phase = "threw"]
  /\ UNCHANGED pipeline

NextDispatch ==
  \/ CreateCompletion
  \/ CreateResolves
  \/ CreateRejects
  \/ ReturnBizError
  \/ ReturnInternalError
  \/ StringifyThrows
  \/ \E d \in Levels : Pull(d)
  \/ \E d \in Levels : EndOfStream(d)
  \/ Cancel

SpecDispatch == InitDispatch /\ [][NextDispatch]_vars

LegacyChunks(chunks) ==
  \A i \in 1..Len(chunks) : isCompletion(chunks[i])

\* C15 as stated: a stream of legacy chunks is not failed by its extractor,
\* and the text it has emitted, concatenated, is the concatenation of the
\* chunks' choices[0].text trimmed at the start of the stream.
C15_LegacyAccepted ==
  \A d \in Levels :
    (fed[d] # <<>> /\ LegacyChunks(fed[d])) =>
      /\ fault[d] # "extract"
      /\ pc[d] # "errored"
      /\ Flat(Payloads(emitted[d]))
           = TrimStart(Flat([i \in 1..Len(fed[d]) |-> fed[d][i].text]))

\* ------------------------------------------------------------------ the aggregator's states
\* C16 as stated: a stream whose first text does not begin with the
\* function-call marker has forwarded every text its extractor yielded, each
\* as one event, in order; nothing is buffered and the handler is not called.
\* (Stated for a stream whose first chunk is the content "a".)
C16_PassthroughForGood ==
  \A d \in Levels :
    (/\ fed[d] # <<>>
     /\ fed[d][1] = Content(<<"a">>)
     /\ ~StartsWithFunctionCall(YieldedBy(d)[1])) =>
      /\ emitted[d] = [i \in 1..Len(YieldedBy(d)) |-> TextEvent(YieldedBy(d)[i])]
      /\ tr[d].aggregatedResponse = <<>>
      /\ handled[d] = <<>>

\* C17: at every level with a handler, once a text has opened a call the
\* stream emits nothing more while its upstream is open or its handler is
\* pending, and its buffer is the texts from that one on, concatenated in
\* arrival order; the event flush enqueues for the call is the last event of
\* the stream, and in envelope mode no event follows a function-call record,
\* a relayed one included.
C17_BufferedUntilEnd ==
  \A d \in Levels :
    /\ (HandlerAt(d) /\ tr[d].isFunctionStreamingIn) =>
         /\ tr[d].aggregatedResponse = Buffered(d)
         /\ pc[d] \in {"streaming", "handler"} =>
              emitted[d] = ForwardedBeforeCall(d)
    /\ (pc[d] = "closed" /\ returned[d] = "nothing") =>
         emitted[d] = Append(ForwardedBeforeCall(d),
                             NoResponseEvent(tr[d], complexMode))
    /\ \A i \in 1..Len(emitted[d]) :
         emitted[d][i].kind = "function_call" => i = Len(emitted[d])

\* Reached: a stream with a handler buffered a call that came in three chunks,
\* emitted nothing until its upstream ended, and closed after enqueueing the
\* whole call as its only event.
C17_Witness ==
  /\ hasHandler
  /\ complexMode
  /\ pc[0] = "closed"
  /\ returned[0] = "nothing"
  /\ fed[0] = <<NameChunk(<<"f">>), ArgsChunk(<<"1">>), FinishChunk("function_call")>>
  /\ emitted[0]
       = <<getStreamString("function_call", <<"OPEN", "f", "MID", "1", "CLOSE">>)>>

\* ------------------------------------------------- claims: the extractor's calls
\* The extractor's state after a sequence of chunks, from state st
RECURSIVE ExtractorAfter(_, _)
ExtractorAfter(st, chunks) ==
  IF chunks = <<>> THEN st
  ELSE LET r == chunkToText(st, Head(chunks))
       IN IF r.threw THEN st
          ELSE ExtractorAfter([fn |-> r.fn, start |-> r.start], Tail(chunks))

\* The chunk carries a fragment of a function call or a finish reason, and no
\* content
CallChunk(json) ==
  /\ isChatCompletionChunk(json)
  /\ ~Truthy(json.content)
  /\ ~json.ids

\* C18 as stated: of a stream of call chunks, a chunk that arrives while a call
\* is open (a name was seen and the call is not closed) yields no opening
\* text: it yields an escaped argument fragment, the closing text or nothing.
C18_OpenerOncePerCall ==
  \A d \in Levels :
    (\A i \in 1..Len(fed[d]) : CallChunk(fed[d][i])) =>
      \A i \in 1..Len(fed[d]) :
        LET st == ExtractorAfter([fn |-> FALSE, start |-> TRUE],
                                 SubSeq(fed[d], 1, i - 1))
            r == chunkToText(st, fed[d][i])
        IN st.fn =>
             \/ r.text = <<>>
             \/ r.text = <<"CLOSE">>
             \/ Truthy(fed[d][i].args) /\ r.text = EscapeArguments(fed[d][i].args)

\* ------------------------------------------------- two streams, one callbacks object
\* How many chunks the second stream's upstream delivers at most
MaxSibling == 2

\* The chunks the second stream's upstream delivers: plain text
SiblingPool == { Content(<<"a">>), Content(<<"SP">>) }

InitShared == InitWith(SharedPool)

\* OpenAIStream(res2, callbacks): the caller makes a second stream with the
\* object the first was made with, before, while or after the first runs.
\* With a handler the callbacks transformer is given a copy without onFinal and
\* the function-call transformer the object itself; with none, the callbacks
\* transformer is given a copy of the object as it is now.
SiblingCreate ==
  /\ sibling.pc = "absent"
  /\ sibling' = [sibling EXCEPT
       !.pc = "streaming",
       !.cbOnFinal = IF hasHandler THEN FALSE ELSE onFinalSet[0]]
  /\ UNCHANGED <<cc, hasHandler, complexMode, pool, consumer, pc, fed, srcOpen,
                 ex, tr, cbAggregated, onFinalSet, emitted, relayed, callStart,
                 handled, returned, finals, fault,
                 functionCallMessages, built, building>>

\* The second stream pulls one chunk through its own pipeline
SiblingPull ==
  /\ sibling.pc = "streaming"
  /\ Len(sibling.fed) < MaxSibling
  /\ Settled
  /\ \E json \in SiblingPool :
       LET r == chunkToText(sibling.ex, json)
           x == transform(sibling.tr, r.text, complexMode)
           fed1 == [sibling EXCEPT !.fed = Append(@, json),
                                   !.ex = [fn |-> r.fn, start |-> r.start]]
       IN sibling' =
            IF r.threw THEN [fed1 EXCEPT !.pc = "errored"]
            ELSE IF r.text = <<>> THEN fed1
            ELSE IF UsesFunctionCallTransformer(hasHandler)
              THEN [fed1 EXCEPT !.tr = x.t, !.emitted = @ \o x.emit]
            ELSE [fed1 EXCEPT
                    !.cbAggregated = @ \o r.text,
                    !.emitted = Append(@, streamDataTransform(r.text, complexMode))]
  /\ UNCHANGED <<cc, hasHandler, complexMode, pool, consumer, pc, fed, srcOpen,
                 ex, tr, cbAggregated, onFinalSet, emitted, relayed, callStart,
                 handled, returned, finals, fault,
                 functionCallMessages, built, building>>

\* The second stream's upstream ends with no call buffered.  With a handler
\* the finally block of flush reads onFinal from the shared callbacks object
\* as it is now; with none, the callbacks transformer calls the onFinal it was
\* given.
SiblingEnd ==
  /\ sibling.pc = "streaming"
  /\ Settled
  /\ ~(UsesFunctionCallTransformer(hasHandler)
        /\ isEndOfFunction(sibling.tr, hasHandler))
  /\ sibling' = [sibling EXCEPT
       !.pc = "closed",
       !.finals =
          IF UsesFunctionCallTransformer(hasHandler)
            THEN IF onFinalSet[0]
                    /\ sibling.tr.aggregatedFinalCompletionResponse # <<>>
                   THEN Append(@, sibling.tr.aggregatedFinalCompletionResponse)
                 ELSE @
          ELSE IF sibling.cbOnFinal THEN Append(@, sibling.cbAggregated)
          ELSE @]
  /\ UNCHANGED <<cc, hasHandler, complexMode, pool, consumer, pc, fed, srcOpen,
                 ex, tr, cbAggregated, onFinalSet, emitted, relayed, callStart,
                 handled, returned, finals, fault,
                 functionCallMessages, built, building>>

NextShared ==
  \/ Next
  \/ SiblingCreate
  \/ SiblingPull
  \/ SiblingEnd

\* Two streams made with one callbacks object, run in any interleaving
SpecShared == InitShared /\ [][NextShared]_vars

\* C19 as stated: what the second stream emits, and whether and with what
\* text its onFinal fires, is what it would be were it the only stream: each
\* of its texts is forwarded as one event, and when it closes after
\* forwarding some text its onFinal has fired once, with all of its text.
C19_StreamsIndependent ==
  LET texts == Yielded([fn |-> FALSE, start |-> TRUE], sibling.fed)
  IN /\ sibling.emitted = [i \in 1..Len(texts) |-> TextEvent(texts[i])]
     /\ (sibling.pc = "closed" /\ texts # <<>>) =>
          sibling.finals = <<Flat(texts)>>

\* ------------------------------------------------- claims: the messages of a continuation
\* C20: the list a continuation was made with is its parent's list when the
\* handler did not call the builder, and otherwise its parent's list followed
\* by one assistant message carrying the call and one function message
\* carrying the JSON of the result of the last builder call, however many
\* calls there were; the list of a stream at depth d has at most 2d messages.
C20_OnePairPerContinuation ==
  \A d \in Levels :
    /\ Len(functionCallMessages[d]) <= 2 * d
    /\ (d < MaxDepth /\ pc[d + 1] # "absent") =>
         LET parent == functionCallMessages[d]
             child == functionCallMessages[d + 1]
             call == handled[d][1]
             n == Len(parent)
         IN IF built[d] = <<>> THEN child = parent
            ELSE /\ Len(child) = n + 2
                 /\ SubSeq(child, 1, n) = parent
                 /\ child[n + 1].role = "assistant"
                 /\ child[n + 1].content = <<>>
                 /\ child[n + 1].function_call = call
                 /\ child[n + 2].role = "function"
                 /\ child[n + 2].name = call.name
                 /\ child[n + 2].content
                      = JsonStringify(built[d][Len(built[d])])

\* Reached: two continuations deep, both handlers having called the builder,
\* the first of them twice; the innermost stream's list has four messages.
C20_Witness ==
  /\ pc[2] # "absent"
  /\ Len(built[0]) = 2
  /\ Len(built[1]) = 1
  /\ Len(functionCallMessages[1]) = 2
  /\ Len(functionCallMessages[2]) = 4
  /\ functionCallMessages[2][2].content = <<"DQ", "BS", "DQ", "DQ">>

\* ------------------------------------------------- claims: onFinal over the whole chain
\* C21: in every state, whatever the chunks, the handlers' outcomes and the
\* depth, onFinal has been invoked at most once by the top-level stream and
\* its continuations together; and of the streams of the chain at most one,
\* the innermost, has a callbacks object that still holds onFinal.
C21_OnFinalAtMostOnce ==
  /\ Len(finals) <= 1
  /\ \A d \in Levels :
       (pc[d] # "absent" /\ onFinalSet[d]) => d = Innermost

\* Reached: a continuation's handler returned a string; the continuation and
\* then the top-level stream closed, with one onFinal invocation, the
\* continuation's.
C21_Witness ==
  /\ pc[0] = "closed"
  /\ returned[0] = "stream"
  /\ pc[1] = "closed"
  /\ returned[1] = "string"
  /\ Len(finals) = 1
  /\ finals[1].level = 1

====
